---- MODULE Spec2Model ----
(***************************************************************************)
(* Model of pandas_gbq/schema.py and pandas_gbq/optimize.py: schema        *)
(* inference and merge, column selection, generation of the statistics     *)
(* query, the integer type decision and the reshaping of the statistics    *)
(* result.                                                                 *)
(*                                                                         *)
(* Python integers are unbounded, and the bounds table holds values beyond *)
(* 32 bits, so an integer is modelled by its sign and its decimal digits   *)
(* (most significant first, no leading zero), compared as integers are.    *)
(* A Python string that is parsed again (a column name, a result column    *)
(* name) is a sequence of one-character strings.                           *)
(***************************************************************************)
EXTENDS Integers, Sequences, FiniteSets, TLC

\* schema: the field list the program works on
\* args:   the inputs of the next call of a pure function
\* call:   the last call made: its name, inputs, result, and the queries it
\*         handed to the external executor read_gbq
VARIABLES schema, args, call

vars == <<schema, args, call>>

(***************************************************************************)
(* Integers                                                                *)
(***************************************************************************)
Pos(d) == [neg |-> FALSE, digits |-> d]

Neg(d) == [neg |-> TRUE, digits |-> d]

Zero == Pos(<<0>>)

\* magnitude comparison of two digit sequences without leading zeros
MagLT(x, y) ==
    \/ Len(x) < Len(y)
    \/ /\ Len(x) = Len(y)
       /\ \E i \in 1..Len(x) :
            /\ x[i] < y[i]
            /\ \A j \in 1..(i - 1) : x[j] = y[j]

\* a < b on integers
IntLT(a, b) ==
    IF a.neg /\ ~b.neg THEN TRUE
    ELSE IF ~a.neg /\ b.neg THEN FALSE
    ELSE IF a.neg THEN MagLT(b.digits, a.digits)
    ELSE MagLT(a.digits, b.digits)

\* a <= b on integers
IntLE(a, b) == a = b \/ IntLT(a, b)

\* a >= b on integers
IntGE(a, b) == IntLE(b, a)

(***************************************************************************)
(* NUMPY_INT_RANGE: name |-> <<lowest, highest>>                           *)
(***************************************************************************)
NUMPY_INT_RANGE ==
    [t \in {"int8", "int16", "int32", "int64",
            "uint8", "uint16", "uint32", "uint64"} |->
        CASE t = "int8"   -> <<Neg(<<1,2,8>>), Pos(<<1,2,7>>)>>
          [] t = "int16"  -> <<Neg(<<3,2,7,6,8>>), Pos(<<3,2,7,6,7>>)>>
          [] t = "int32"  -> <<Neg(<<2,1,4,7,4,8,3,6,4,8>>),
                               Pos(<<2,1,4,7,4,8,3,6,4,7>>)>>
          [] t = "int64"  -> <<Neg(<<9,2,2,3,3,7,2,0,3,6,8,5,4,7,7,5,8,0,8>>),
                               Pos(<<9,2,2,3,3,7,2,0,3,6,8,5,4,7,7,5,8,0,7>>)>>
          [] t = "uint8"  -> <<Zero, Pos(<<2,5,5>>)>>
          [] t = "uint16" -> <<Zero, Pos(<<6,5,5,3,5>>)>>
          [] t = "uint32" -> <<Zero, Pos(<<4,2,9,4,9,6,7,2,9,5>>)>>
          [] t = "uint64" -> <<Zero,
                               Pos(<<1,8,4,4,6,7,4,4,0,7,3,7,0,9,5,5,1,6,1,5>>)>>]

\* schema.py's decision with the signed branch testing max alone
schema_determine_int_type_max_only(min, max, nullcount) ==
    IF nullcount # 0 THEN "Int64"
    ELSE IF IntGE(min, Zero)
    THEN IF IntLE(max, NUMPY_INT_RANGE["uint8"][2]) THEN "uint8"
         ELSE IF IntLE(max, NUMPY_INT_RANGE["uint16"][2]) THEN "uint16"
         ELSE IF IntLE(max, NUMPY_INT_RANGE["uint32"][2]) THEN "uint32"
         ELSE "Int64"
    ELSE IF IntLE(max, NUMPY_INT_RANGE["int8"][2]) THEN "int8"
         ELSE IF IntLE(max, NUMPY_INT_RANGE["int16"][2]) THEN "int16"
         ELSE IF IntLE(max, NUMPY_INT_RANGE["int32"][2]) THEN "int32"
         ELSE "Int64"

(***************************************************************************)
(* _determine_int_type, as pandas_gbq/schema.py defines it                 *)
(***************************************************************************)
schema_determine_int_type(min, max, nullcount) ==
    IF nullcount # 0 THEN "Int64"
    ELSE IF IntGE(min, Zero)
    THEN IF IntLE(max, NUMPY_INT_RANGE["uint8"][2]) THEN "uint8"
         ELSE IF IntLE(max, NUMPY_INT_RANGE["uint16"][2]) THEN "uint16"
         ELSE IF IntLE(max, NUMPY_INT_RANGE["uint32"][2]) THEN "uint32"
         ELSE "Int64"
    ELSE IF IntGE(min, NUMPY_INT_RANGE["int8"][1])
              /\ IntLE(max, NUMPY_INT_RANGE["int8"][2]) THEN "int8"
         ELSE IF IntGE(min, NUMPY_INT_RANGE["int16"][1])
              /\ IntLE(max, NUMPY_INT_RANGE["int16"][2]) THEN "int16"
         ELSE IF IntGE(min, NUMPY_INT_RANGE["int32"][1])
              /\ IntLE(max, NUMPY_INT_RANGE["int32"][2]) THEN "int32"
         ELSE "Int64"

\* optimize.py's decision with the null test made in the signed branch only
optimize_determine_int_type_nulls_late(min, max, nullcount) ==
    IF IntGE(min, Zero)
    THEN IF IntLE(max, NUMPY_INT_RANGE["uint8"][2]) THEN "uint8"
         ELSE IF IntLE(max, NUMPY_INT_RANGE["uint16"][2]) THEN "uint16"
         ELSE IF IntLE(max, NUMPY_INT_RANGE["uint32"][2]) THEN "uint32"
         ELSE "uint64"
    ELSE IF nullcount # 0 THEN "Int64"
         ELSE IF IntGE(min, NUMPY_INT_RANGE["int8"][1])
              /\ IntLE(max, NUMPY_INT_RANGE["int8"][2]) THEN "int8"
         ELSE IF IntGE(min, NUMPY_INT_RANGE["int16"][1])
              /\ IntLE(max, NUMPY_INT_RANGE["int16"][2]) THEN "int16"
         ELSE IF IntGE(min, NUMPY_INT_RANGE["int32"][1])
              /\ IntLE(max, NUMPY_INT_RANGE["int32"][2]) THEN "int32"
         ELSE "Int64"

(***************************************************************************)
(* _determine_int_type, as pandas_gbq/optimize.py defines it               *)
(***************************************************************************)
optimize_determine_int_type(min, max, nullcount) ==
    IF nullcount # 0 THEN "Int64"
    ELSE IF IntGE(min, Zero)
    THEN IF IntLE(max, NUMPY_INT_RANGE["uint8"][2]) THEN "uint8"
         ELSE IF IntLE(max, NUMPY_INT_RANGE["uint16"][2]) THEN "uint16"
         ELSE IF IntLE(max, NUMPY_INT_RANGE["uint32"][2]) THEN "uint32"
         ELSE "uint64"
    ELSE IF IntGE(min, NUMPY_INT_RANGE["int8"][1])
              /\ IntLE(max, NUMPY_INT_RANGE["int8"][2]) THEN "int8"
         ELSE IF IntGE(min, NUMPY_INT_RANGE["int16"][1])
              /\ IntLE(max, NUMPY_INT_RANGE["int16"][2]) THEN "int16"
         ELSE IF IntGE(min, NUMPY_INT_RANGE["int32"][1])
              /\ IntLE(max, NUMPY_INT_RANGE["int32"][2]) THEN "int32"
         ELSE "Int64"

(***************************************************************************)
(* What a call returns: a value, None, or a raised exception               *)
(***************************************************************************)
Ret(v) == [raised |-> "", none |-> FALSE, value |-> v]

NoneRet == [raised |-> "", none |-> TRUE, value |-> <<>>]

Raise(e) == [raised |-> e, none |-> FALSE, value |-> <<>>]

(***************************************************************************)
(* generate_bq_schema: a dataframe is its columns, each a name and the     *)
(* kind of its dtype                                                       *)
(***************************************************************************)
type_mapping ==
    [k \in {"i", "b", "f", "O", "S", "U", "M"} |->
        CASE k = "i" -> "INTEGER"
          [] k = "b" -> "BOOLEAN"
          [] k = "f" -> "FLOAT"
          [] k = "O" -> "STRING"
          [] k = "S" -> "STRING"
          [] k = "U" -> "STRING"
          [] k = "M" -> "TIMESTAMP"]

generate_bq_schema(dataframe, default_type) ==
    [fields |->
        [i \in 1..Len(dataframe) |->
            [name |-> dataframe[i].name,
             type |-> IF dataframe[i].kind \in DOMAIN type_mapping
                      THEN type_mapping[dataframe[i].kind]
                      ELSE default_type]]]

(***************************************************************************)
(* update_schema                                                           *)
(***************************************************************************)
\* {field["name"]: i for i, field in enumerate(output_fields)}: a later
\* field of the same name overwrites the index of an earlier one
field_indices_of(output_fields) ==
    [n \in {output_fields[i].name : i \in 1..Len(output_fields)} |->
        CHOOSE i \in 1..Len(output_fields) :
            /\ output_fields[i].name = n
            /\ \A j \in 1..Len(output_fields) :
                    output_fields[j].name = n => j <= i]

RECURSIVE update_schema_loop_append_only(_, _, _, _)
\* the loop with the replacement branch lost: every new field is appended
update_schema_loop_append_only(output_fields, field_indices, new_fields, k) ==
    IF k > Len(new_fields) THEN output_fields
    ELSE update_schema_loop_append_only(
            Append(output_fields, new_fields[k]),
            field_indices, new_fields, k + 1)

RECURSIVE update_schema_loop(_, _, _, _)
\* the body of "for field in new_fields", from the k-th new field on
update_schema_loop(output_fields, field_indices, new_fields, k) ==
    IF k > Len(new_fields) THEN output_fields
    ELSE LET field == new_fields[k]
             name == field.name
         IN IF name \in DOMAIN field_indices
            THEN update_schema_loop(
                    [output_fields EXCEPT ![field_indices[name]] = field],
                    field_indices, new_fields, k + 1)
            ELSE update_schema_loop(
                    Append(output_fields, field),
                    field_indices, new_fields, k + 1)

update_schema(schema_old, schema_new) ==
    LET old_fields == schema_old.fields
        new_fields == schema_new.fields
        output_fields == old_fields
        field_indices == field_indices_of(output_fields)
    IN [fields |-> update_schema_loop(output_fields, field_indices,
                                      new_fields, 1)]

(***************************************************************************)
(* Column selection                                                        *)
(***************************************************************************)
\* [field["name"] for field in fields]
NamesOf(fields) == [i \in 1..Len(fields) |-> fields[i].name]

\* schema.py: field["mode"] is read only when the type matches ("and"
\* short-circuits) and raises KeyError on a field that has no "mode" key
select_columns_by_type(fields, bq_type) ==
    IF \E k \in 1..Len(fields) :
          fields[k].type = bq_type /\ "mode" \notin DOMAIN fields[k]
    THEN Raise("KeyError")
    ELSE Ret(NamesOf(SelectSeq(fields,
                LAMBDA f : f.type = bq_type /\ f.mode # "REPEATED")))

\* optimize.py: one name per item of the field whose key is 'type' and whose
\* value is bq_type
optimize_select_columns_by_type(fields, bq_type) ==
    Ret(NamesOf(SelectSeq(fields, LAMBDA f : f.type = bq_type)))

(***************************************************************************)
(* The statistics query.  A statement is the sequence of its tokens: the   *)
(* keywords, the commas and the aliased aggregate expressions.             *)
(***************************************************************************)
Kw(word) == [tok |-> word, column |-> <<>>, alias |-> <<>>]

Comma == Kw(",")

\* "FN({column}) AS {column}_suffix".format(column=column)
Expr(fn, column, suffix) ==
    [tok |-> fn, column |-> column, alias |-> column \o <<"_">> \o suffix]

\* separator.join(parts), each part a token sequence
RECURSIVE Join(_, _)
Join(separator, parts) ==
    IF Len(parts) = 0 THEN <<>>
    ELSE IF Len(parts) = 1 THEN parts[1]
    ELSE parts[1] \o separator \o Join(separator, Tail(parts))

\* filter(None, parts): the non-empty parts
RECURSIVE FilterNone(_)
FilterNone(parts) ==
    IF Len(parts) = 0 THEN <<>>
    ELSE (IF parts[1] = <<>> THEN <<>> ELSE <<parts[1]>>)
         \o FilterNone(Tail(parts))

schema_integer_format(column) ==
    << Expr("MIN", column, <<"m","i","n">>), Comma,
       Expr("MAX", column, <<"m","a","x">>), Comma,
       Expr("COUNTIF_IS_NULL", column,
            <<"c","o","u","n","t","i","f","n","u","l","l">>) >>

schema_string_format(column) ==
    << Expr("COUNT_DISTINCT", column,
            <<"c","o","u","n","t","d","i","s","t","i","n","c","t">>), Comma,
       Expr("COUNT", column, <<"c","o","u","n","t">>), Comma,
       Expr("SAFE_DIVIDE", column,
            <<"f","r","a","c","t","i","o","n",
              "d","i","s","t","i","n","c","t">>) >>

generate_sql(fields) ==
    LET integers == select_columns_by_type(fields, "INTEGER")
        strings == select_columns_by_type(fields, "STRING")
    IN IF integers.raised # "" THEN integers
       ELSE IF strings.raised # "" THEN strings
       ELSE
        LET select_clause_integers ==
                Join(<<Comma>>, [i \in 1..Len(integers.value) |->
                                    schema_integer_format(integers.value[i])])
            select_clause_strings ==
                Join(<<Comma>>, [i \in 1..Len(strings.value) |->
                                    schema_string_format(strings.value[i])])
            select_clause ==
                Join(<<Comma>>, FilterNone(<<select_clause_integers,
                                            select_clause_strings>>))
        IN IF select_clause # <<>>
           THEN Ret(<<Kw("SELECT")>> \o select_clause \o <<Kw("FROM")>>)
           ELSE NoneRet

optimize_integer_format(column) ==
    << Expr("MIN", column, <<"m","i","n">>), Comma,
       Expr("MAX", column, <<"m","a","x">>), Comma,
       Expr("COUNTIF_IS_NULL", column,
            <<"c","o","u","n","t","i","f","n","u","l","l">>) >>

optimize_string_format(column) ==
    << Expr("COUNT_DISTINCT", column,
            <<"d","i","s","t","i","n","c","t">>), Comma,
       Expr("COUNT", column, <<"r","o","w","c","o","u","n","t">>) >>

optimize_generate_sql(fields) ==
    LET integers == optimize_select_columns_by_type(fields, "INTEGER")
        strings == optimize_select_columns_by_type(fields, "STRING")
        select_clause_integers ==
            Join(<<Comma>>, [i \in 1..Len(integers.value) |->
                                optimize_integer_format(integers.value[i])])
        select_clause_strings ==
            Join(<<Comma>>, [i \in 1..Len(strings.value) |->
                                optimize_string_format(strings.value[i])])
    IN Ret(<<Kw("SELECT")>> \o select_clause_integers \o <<Comma>>
           \o select_clause_strings \o <<Kw("FROM")>>)

(***************************************************************************)
(* _get_table_stats: run the query and reshape its single row              *)
(***************************************************************************)
\* x.split(sep) for a one-character separator
RECURSIVE str_split(_, _)
str_split(x, sep) ==
    IF \A i \in 1..Len(x) : x[i] # sep THEN <<x>>
    ELSE LET i == CHOOSE i \in 1..Len(x) :
                    x[i] = sep /\ \A j \in 1..(i - 1) : x[j] # sep
         IN <<SubSeq(x, 1, i - 1)>> \o str_split(SubSeq(x, i + 1, Len(x)), sep)

\* the name taken as the first segment: x.split('_')[0]
reshape_name_first_segment(x) ==
    LET parts == str_split(x, "_")
    IN parts[1]

\* '_'.join(x.split('_')[:-1])
reshape_name(x) ==
    LET parts == str_split(x, "_")
    IN Join(<<"_">>, SubSeq(parts, 1, Len(parts) - 1))

\* x.split('_')[-1]
reshape_key(x) ==
    LET parts == str_split(x, "_")
    IN parts[Len(parts)]

\* the external executor: it fails, or answers one row whose columns are
\* the aliases of the statement, in order
read_gbq(sql, ok) ==
    IF ok
    THEN LET exprs == SelectSeq(sql, LAMBDA t : t.alias # <<>>)
         IN Ret([i \in 1..Len(exprs) |-> exprs[i].alias])
    ELSE Raise("GenericGBQException")

\* .join(pd.DataFrame(schema).set_index('name')): a left join on the name;
\* a row without a field of its name keeps NaN
RECURSIVE join_schema(_, _, _)
join_schema(rows, fields, k) ==
    IF k > Len(rows) THEN <<>>
    ELSE LET row == rows[k]
             matches == SelectSeq(fields, LAMBDA f : f.name = row.name)
         IN (IF Len(matches) = 0
             THEN <<[name |-> row.name, key |-> row.key, type |-> "NaN"]>>
             ELSE [i \in 1..Len(matches) |->
                    [name |-> row.name, key |-> row.key,
                     type |-> matches[i].type]])
            \o join_schema(rows, fields, k + 1)

\* [executed: the statements handed to read_gbq, result: what is returned]
get_table_stats(fields, ok) ==
    LET sql == optimize_generate_sql(fields)
        answer == read_gbq(sql.value, ok)
    IN [executed |-> <<sql.value>>,
        result |->
            IF answer.raised # "" THEN answer
            ELSE LET index == answer.value
                     rows == [i \in 1..Len(index) |->
                                [name |-> reshape_name(index[i]),
                                 key |-> reshape_key(index[i])]]
                 IN Ret(join_schema(rows, fields, 1))]

(***************************************************************************)
(* Bounds and input sets                                                   *)
(***************************************************************************)
\* most columns of a table or dataframe
MaxColumns == 2

\* most fields the old and the new schema of a merge hold together
MaxFields == 4

\* largest null count tried
MaxNullCount == 2

\* longest column name tried in the reshape
MaxNameLen == 2

SeqsUpTo(S, n) == UNION {[1..k -> S] : k \in 0..n}

UniqueNames(fields) ==
    \A i, j \in 1..Len(fields) : fields[i].name = fields[j].name => i = j

ColumnNames == {<<"a">>, <<"b">>, <<"a", "_", "b">>}

BqTypes == {"INTEGER", "STRING", "FLOAT"}

Modes == {"NULLABLE", "REQUIRED", "REPEATED"}

\* what GbqConnector.schema() can answer: every field has a mode, and a
\* table has no two columns of one name
LiveSchemas ==
    {s \in SeqsUpTo([name : ColumnNames, type : BqTypes, mode : Modes],
                    MaxColumns) : UniqueNames(s)}

DtypeKinds == {"i", "b", "f", "O", "S", "U", "M", "u"}

DataFrames == SeqsUpTo([name : ColumnNames, kind : DtypeKinds], MaxColumns)

DefaultTypes == {"STRING", "FLOAT"}

\* the fields merged: one carrying a mode, one without
MergeFields ==
    {[name |-> n, type |-> "INTEGER", mode |-> "REQUIRED"] : n \in ColumnNames}
    \cup {[name |-> n, type |-> "STRING"] : n \in ColumnNames}

\* values at and around every bound of NUMPY_INT_RANGE
IntInputs ==
    { Neg(<<9,2,2,3,3,7,2,0,3,6,8,5,4,7,7,5,8,0,8>>),
      Neg(<<2,1,4,7,4,8,3,6,4,9>>), Neg(<<2,1,4,7,4,8,3,6,4,8>>),
      Neg(<<2,1,4,7,4,8,3,6,4,7>>),
      Neg(<<3,2,7,6,9>>), Neg(<<3,2,7,6,8>>), Neg(<<3,2,7,6,7>>),
      Neg(<<1,2,9>>), Neg(<<1,2,8>>), Neg(<<1,2,7>>), Neg(<<1>>),
      Zero, Pos(<<1>>),
      Pos(<<1,2,7>>), Pos(<<1,2,8>>), Pos(<<2,5,5>>), Pos(<<2,5,6>>),
      Pos(<<3,2,7,6,7>>), Pos(<<3,2,7,6,8>>),
      Pos(<<6,5,5,3,5>>), Pos(<<6,5,5,3,6>>),
      Pos(<<2,1,4,7,4,8,3,6,4,7>>), Pos(<<2,1,4,7,4,8,3,6,4,8>>),
      Pos(<<4,2,9,4,9,6,7,2,9,5>>), Pos(<<4,2,9,4,9,6,7,2,9,6>>),
      Pos(<<9,2,2,3,3,7,2,0,3,6,8,5,4,7,7,5,8,0,7>>) }

NameChars == {"a", "b", "_"}

ReshapeNames == UNION {[1..k -> NameChars] : k \in 1..MaxNameLen}

\* the suffixes the two generators emit
Suffixes ==
    { Tail(schema_integer_format(<<>>)[i].alias) : i \in {1, 3, 5} }
    \cup { Tail(schema_string_format(<<>>)[i].alias) : i \in {1, 3, 5} }
    \cup { Tail(optimize_integer_format(<<>>)[i].alias) : i \in {1, 3, 5} }
    \cup { Tail(optimize_string_format(<<>>)[i].alias) : i \in {1, 3} }

(***************************************************************************)
(* The program: obtain a schema, then select, generate, collect statistics *)
(***************************************************************************)
Init ==
    /\ schema = <<>>
    /\ args = <<>>
    /\ call = [op |-> "none"]

\* conn.schema(dataset_id, table_id)
ConnSchema ==
    /\ call.op = "none"
    /\ \E s \in LiveSchemas :
        /\ schema' = s
        /\ call' = [op |-> "conn_schema"]
    /\ UNCHANGED args

GenerateBqSchema ==
    /\ call.op = "none"
    /\ \E dataframe \in DataFrames, default_type \in DefaultTypes :
        /\ schema' = generate_bq_schema(dataframe, default_type).fields
        /\ call' = [op |-> "generate_bq_schema", dataframe |-> dataframe,
                    default_type |-> default_type]
    /\ UNCHANGED args

SelectColumnsByType ==
    /\ call.op # "none"
    /\ \E bq_type \in BqTypes :
        call' = [op |-> "select_columns_by_type", bq_type |-> bq_type,
                 schema_py |-> select_columns_by_type(schema, bq_type),
                 optimize_py |->
                    optimize_select_columns_by_type(schema, bq_type)]
    /\ UNCHANGED <<schema, args>>

GenerateSql ==
    /\ call.op # "none"
    /\ call' = [op |-> "generate_sql",
                schema_py |-> generate_sql(schema),
                optimize_py |-> optimize_generate_sql(schema)]
    /\ UNCHANGED <<schema, args>>

GetTableStats ==
    /\ call.op # "none"
    /\ \E ok \in BOOLEAN :
        LET done == get_table_stats(schema, ok)
        IN call' = [op |-> "get_table_stats", executed |-> done.executed,
                    result |-> done.result]
    /\ UNCHANGED <<schema, args>>

Next ==
    \/ ConnSchema
    \/ GenerateBqSchema
    \/ SelectColumnsByType
    \/ GenerateSql
    \/ GetTableStats

Spec == Init /\ [][Next]_vars

(***************************************************************************)
(* Merging: any run of update_schema calls from a schema of unique names   *)
(***************************************************************************)
InitMerge ==
    /\ schema \in {s \in SeqsUpTo(MergeFields, MaxFields) : UniqueNames(s)}
    /\ args = <<>>
    /\ call = [op |-> "none"]

UpdateSchema ==
    /\ \E new \in SeqsUpTo(MergeFields, MaxFields - Len(schema)) :
        LET merged == update_schema([fields |-> schema], [fields |-> new])
        IN /\ schema' = merged.fields
           /\ call' = [op |-> "update_schema", schema_old |-> schema,
                       schema_new |-> new, result |-> merged.fields]
    /\ UNCHANGED args

NextMerge == UpdateSchema

SpecMerge == InitMerge /\ [][NextMerge]_vars

(***************************************************************************)
(* The integer type decision on every input                                *)
(***************************************************************************)
InitInt ==
    /\ schema = <<>>
    /\ args \in {a \in [min : IntInputs, max : IntInputs,
                         nullcount : 0..MaxNullCount] : IntLE(a.min, a.max)}
    /\ call = [op |-> "none"]

DetermineIntType ==
    /\ call.op = "none"
    /\ call' = [op |-> "determine_int_type",
                schema_py |-> schema_determine_int_type(
                                args.min, args.max, args.nullcount),
                optimize_py |-> optimize_determine_int_type(
                                args.min, args.max, args.nullcount)]
    /\ UNCHANGED <<schema, args>>

NextInt == DetermineIntType

SpecInt == InitInt /\ [][NextInt]_vars

(***************************************************************************)
(* The reshape of one result column, on every column name and suffix       *)
(***************************************************************************)
InitReshape ==
    /\ schema = <<>>
    /\ args \in [column : ReshapeNames, stat : Suffixes]
    /\ call = [op |-> "none"]

Reshape ==
    /\ call.op = "none"
    /\ LET index == Expr("AGG", args.column, args.stat).alias
       IN call' = [op |-> "reshape", index |-> index,
                   name |-> reshape_name(index), key |-> reshape_key(index)]
    /\ UNCHANGED <<schema, args>>

NextReshape == Reshape

SpecReshape == InitReshape /\ [][NextReshape]_vars

(***************************************************************************)
(* Properties                                                              *)
(***************************************************************************)
\* the closed ranges the properties speak of, written out
SignedWidths ==
    << [type |-> "int8",  lo |-> Neg(<<1,2,8>>), hi |-> Pos(<<1,2,7>>)],
       [type |-> "int16", lo |-> Neg(<<3,2,7,6,8>>), hi |-> Pos(<<3,2,7,6,7>>)],
       [type |-> "int32", lo |-> Neg(<<2,1,4,7,4,8,3,6,4,8>>),
                          hi |-> Pos(<<2,1,4,7,4,8,3,6,4,7>>)] >>

UnsignedWidths ==
    << [type |-> "uint8",  hi |-> Pos(<<2,5,5>>)],
       [type |-> "uint16", hi |-> Pos(<<6,5,5,3,5>>)],
       [type |-> "uint32", hi |-> Pos(<<4,2,9,4,9,6,7,2,9,5>>)] >>

\* the first width of the table whose range contains min and max
SmallestSigned(min, max) ==
    LET fits == {i \in 1..Len(SignedWidths) :
                    /\ IntLE(SignedWidths[i].lo, min)
                    /\ IntLE(max, SignedWidths[i].hi)}
    IN IF fits = {} THEN "Int64"
       ELSE SignedWidths[CHOOSE i \in fits : \A j \in fits : i <= j].type

\* the first width of the table whose range covers max
SmallestUnsigned(max) ==
    LET fits == {i \in 1..Len(UnsignedWidths) :
                    IntLE(max, UnsignedWidths[i].hi)}
    IN IF fits = {} THEN "uint64"
       ELSE UnsignedWidths[CHOOSE i \in fits : \A j \in fits : i <= j].type

Decided == call.op = "determine_int_type"

\* C1: with no nulls and 0 <= min <= max, the decision is the smallest
\* unsigned width whose range covers max: uint8 up to 255, uint16 up to
\* 65535, uint32 up to 4294967295, and uint64 from 4294967296 on.
C1_UnsignedWidth ==
    (Decided /\ args.nullcount = 0 /\ IntLE(Zero, args.min)
        /\ IntLE(args.min, args.max))
    => LET expected == SmallestUnsigned(args.max)
       IN call.schema_py = expected /\ call.optimize_py = expected

\* C2: with no nulls and min < 0, the decision is the smallest of int8,
\* int16, int32 whose range contains both min and max, and the nullable
\* wide integer (never uint64) when none of them does.
C2_SignedWidth ==
    (Decided /\ args.nullcount = 0 /\ IntLT(args.min, Zero))
    => LET expected == SmallestSigned(args.min, args.max)
       IN /\ call.schema_py = expected /\ call.optimize_py = expected
          /\ call.schema_py # "uint64" /\ call.optimize_py # "uint64"

\* C2 happens: a minimum one below the int32 range falls back to Int64
C2_Witness ==
    /\ Decided /\ args.nullcount = 0
    /\ args.min = Neg(<<2,1,4,7,4,8,3,6,4,9>>)
    /\ call.schema_py = "Int64" /\ call.optimize_py = "Int64"

\* C3: with any null present the decision is the nullable wide integer,
\* whatever min and max are.
C3_NullsGiveInt64 ==
    (Decided /\ args.nullcount > 0)
    => call.schema_py = "Int64" /\ call.optimize_py = "Int64"

\* C3 happens: a range that fits uint8, with a null
C3_Witness ==
    /\ Decided /\ args.nullcount > 0
    /\ args.min = Zero /\ args.max = Pos(<<2,5,5>>)
    /\ call.schema_py = "Int64" /\ call.optimize_py = "Int64"

HasName(fields, n) == \E i \in 1..Len(fields) : fields[i].name = n

FieldNamed(fields, n) ==
    fields[CHOOSE i \in 1..Len(fields) : fields[i].name = n]

\* the merge as the property words it
MergedAsClaimed(old, new) ==
    [i \in 1..Len(old) |->
        IF HasName(new, old[i].name) THEN FieldNamed(new, old[i].name)
        ELSE old[i]]
    \o SelectSeq(new, LAMBDA f : ~HasName(old, f.name))

Merged == call.op = "update_schema"

\* C4: merging schemas of unique names gives the old fields in their order,
\* each one whose name occurs in the new schema replaced in place by the
\* whole new field, followed by the new fields of other names in their
\* order.
C4_MergeOrder ==
    (Merged /\ UniqueNames(call.schema_old) /\ UniqueNames(call.schema_new))
    => call.result = MergedAsClaimed(call.schema_old, call.schema_new)

\* C4 happens: two old fields, the second replaced, one new field appended
C4_Witness ==
    /\ Merged
    /\ UniqueNames(call.schema_old) /\ UniqueNames(call.schema_new)
    /\ Len(call.schema_old) = 2 /\ Len(call.schema_new) = 2
    /\ call.schema_new[1].name = call.schema_old[2].name
    /\ call.schema_new[1] # call.schema_old[2]
    /\ ~HasName(call.schema_old, call.schema_new[2].name)
    /\ call.result = <<call.schema_old[1], call.schema_new[1],
                       call.schema_new[2]>>

\* C5: after any run of merges, also with a new schema that lists a name
\* twice, no two fields of the schema share a name.
C5_NoDuplicateNames == UniqueNames(schema)

IsRepeated(f) == "mode" \in DOMAIN f /\ f.mode = "REPEATED"

\* the columns of a type that are not repeated, a field without a mode
\* counting as not repeated
Qualifying(fields, bq_type) ==
    LET keep == {i \in 1..Len(fields) :
                    fields[i].type = bq_type /\ ~IsRepeated(fields[i])}
        \* the position in fields of the n-th kept field
        at(n) == CHOOSE i \in keep : Cardinality({j \in keep : j <= i}) = n
    IN [n \in 1..Cardinality(keep) |-> fields[at(n)].name]

\* C6: selecting by type returns exactly the names of the fields of that
\* type whose mode is not REPEATED, in schema order, so that no REPEATED
\* column reaches a statistics query.
C6_SelectColumns ==
    call.op = "select_columns_by_type"
    => /\ call.schema_py = Ret(Qualifying(schema, call.bq_type))
       /\ call.optimize_py = Ret(Qualifying(schema, call.bq_type))

Live == \A i \in 1..Len(schema) : "mode" \in DOMAIN schema[i]

\* schema.py's selector alone does select as C6 words it on a schema whose
\* fields all carry a mode
SchemaPySelectsOnLive ==
    (Live /\ call.op = "select_columns_by_type")
    => call.schema_py = Ret(Qualifying(schema, call.bq_type))

\* a select list: expressions separated by single commas, none missing
RECURSIVE SelectList(_)
SelectList(tokens) ==
    /\ Len(tokens) >= 1
    /\ tokens[1].alias # <<>>
    /\ \/ Len(tokens) = 1
       \/ /\ Len(tokens) >= 3
          /\ tokens[2] = Comma
          /\ SelectList(SubSeq(tokens, 3, Len(tokens)))

WellFormedSelect(tokens) ==
    /\ Len(tokens) >= 3
    /\ tokens[1] = Kw("SELECT")
    /\ tokens[Len(tokens)] = Kw("FROM")
    /\ SelectList(SubSeq(tokens, 2, Len(tokens) - 1))

QualifyingColumns(fields) ==
    {fields[i].name : i \in {j \in 1..Len(fields) :
                                /\ fields[j].type \in {"INTEGER", "STRING"}
                                /\ ~IsRepeated(fields[j])}}

\* what C7 asks of one generator's result
StatsQueryAsClaimed(fields, r) ==
    IF QualifyingColumns(fields) = {}
    THEN r = NoneRet
    ELSE /\ r.raised = "" /\ ~r.none
         /\ WellFormedSelect(r.value)
         /\ {r.value[i].column : i \in {j \in 1..Len(r.value) :
                                            r.value[j].alias # <<>>}}
            = QualifyingColumns(fields)

\* C7: the generator returns the empty sentinel exactly when no
\* non-repeated INTEGER or STRING column exists, and otherwise a SELECT
\* whose list is the expressions joined by single separators, with no empty
\* clause and no dangling comma, also when only one of the types qualifies.
C7_StatsQuery ==
    call.op = "generate_sql"
    => /\ StatsQueryAsClaimed(schema, call.schema_py)
       /\ StatsQueryAsClaimed(schema, call.optimize_py)

\* schema.py's generator alone does generate as C7 words it on a schema
\* whose fields all carry a mode
SchemaPyGeneratesOnLive ==
    (Live /\ call.op = "generate_sql")
    => StatsQueryAsClaimed(schema, call.schema_py)

Inferred == \A i \in 1..Len(schema) : "mode" \notin DOMAIN schema[i]

AsNullable(fields) ==
    [i \in 1..Len(fields) |->
        [name |-> fields[i].name, type |-> fields[i].type,
         mode |-> "NULLABLE"]]

\* C8: on a schema whose fields carry no mode, as generate_bq_schema makes
\* them, selection and query generation complete without error and give
\* what they give when every mode is NULLABLE.
C8_AbsentModeIsNullable ==
    Inferred
    => /\ call.op = "select_columns_by_type"
          => /\ call.schema_py.raised = ""
             /\ call.schema_py
                = select_columns_by_type(AsNullable(schema), call.bq_type)
       /\ call.op = "generate_sql"
          => /\ call.schema_py.raised = ""
             /\ call.schema_py = generate_sql(AsNullable(schema))

\* C9: when no column qualifies, collecting the statistics returns an empty
\* mapping and the executor is not invoked; otherwise the executor is
\* invoked exactly once.
C9_ExecutorOnlyOnQuery ==
    call.op = "get_table_stats"
    => IF QualifyingColumns(schema) = {}
       THEN call.executed = <<>> /\ call.result = Ret(<<>>)
       ELSE Len(call.executed) = 1

\* C10: splitting a result column name at its last underscore recovers the
\* column and the statistic it was formed from, so no other column and
\* statistic form the same result column name.
C10_ReshapeRoundTrip ==
    call.op = "reshape"
    => /\ call.name = args.column
       /\ call.key = args.stat
       /\ \A c \in ReshapeNames, st \in Suffixes :
            Expr("AGG", c, st).alias = call.index
            => c = reshape_name(call.index) /\ st = reshape_key(call.index)

\* C10 happens: a column name that itself contains an underscore
C10_Witness ==
    /\ call.op = "reshape"
    /\ \E i \in 1..Len(args.column) : args.column[i] = "_"
    /\ call.name = args.column
    /\ call.key = args.stat

====
